---- MODULE Spec2Model ----
(***************************************************************************)
(* Model of static/src/syntax_highlighting_patch.js: the lazy loader of    *)
(* the mermaid module (loadMermaid), and the patched highlight /           *)
(* _renderMermaidDiagram of EmbeddedSyntaxHighlightingComponent.           *)
(*                                                                         *)
(* JavaScript runs one synchronous segment at a time.  Every action below  *)
(* is one such segment: the code from a call or from the resumption of an  *)
(* await up to the next await or return.  The host (the editor) is the     *)
(* environment: it writes the language and the content and calls           *)
(* highlight at any point between two segments.                            *)
(***************************************************************************)
EXTENDS Integers, Sequences, FiniteSets, TLC

\* Bounds of the model.
MaxRenders == 2         \* diagram highlights (activations of _renderMermaidDiagram)

\* One component instance.  Instances share nothing but the module-level loader,
\* whose callers are the activations, whichever instance they belong to.
Components == {1}

NULL == 0               \* null / undefined; handles, promises, elements are >= 1

\* ---------------------------------------------------------------- strings
\* Contents are sequences of one-character strings.
Whitespace == {" ", "\t"}

RECURSIVE trimStart(_)
trimStart(s) ==
    IF s = << >> THEN << >>
    ELSE IF Head(s) \in Whitespace THEN trimStart(Tail(s)) ELSE s

RECURSIVE trimEnd(_)
trimEnd(s) ==
    IF s = << >> THEN << >>
    ELSE IF s[Len(s)] \in Whitespace THEN trimEnd(SubSeq(s, 1, Len(s) - 1)) ELSE s

\* A value used untrimmed.
trimNone(s) == s

\* String.prototype.trim
trim(s) == trimEnd(trimStart(s))

\* Empty or whitespace-only.
IsBlank(s) == \A i \in 1..Len(s) : s[i] \in Whitespace

\* Contents the user may have typed: empty, whitespace-only, padded text.
Values == { << >>, <<" ">>, <<" ", "A", " ">> }

\* languageId as the host stores it; "" is an unset embeddedState/props field.
LanguageIds == {"", "plaintext", "mermaid"}

\* e.message of a renderer failure; "" stands for a failure without message.
Messages == {"", "Parse error"}

\* ------------------------------------------------------------------ markup
NoHtml == [kind |-> "none", svgOf |-> << >>, msg |-> ""]
PlaceholderHtml == [kind |-> "placeholder", svgOf |-> << >>, msg |-> ""]
SvgHtml(text) == [kind |-> "svg", svgOf |-> text, msg |-> ""]
\* The error markup without the 'Invalid syntax' fallback.
ErrorHtmlNoFallback(message) == [kind |-> "error", svgOf |-> << >>, msg |-> message]

ErrorHtml(message) ==
    [kind |-> "error", svgOf |-> << >>,
     msg |-> IF message # "" THEN message ELSE "Invalid syntax"]

\* ------------------------------------------------------------------- theme
\* A colour, a size or a raw CSS value is a sequence of tokens, white space
\* being tokens of its own.  The ambient signals are a record: colorScheme
\* (document.documentElement.dataset.colorScheme, "" when unset), cookie
\* (document.cookie as its '; '-separated rows, each row as its '='-separated
\* parts), primary, text and bg (getPropertyValue of --o-brand-primary,
\* --o-main-text-color and --o-view-background-color, << >> when unset).

\* row.startsWith('color_scheme=')
IsColorSchemeRow(row) == Len(row) >= 2 /\ row[1] = "color_scheme"

\* document.cookie.split('; ').find(row => row.startsWith('color_scheme='))?.split('=')[1]
\* ("" stands for undefined as well as for an empty value: both are falsy)
RECURSIVE cookieColorScheme(_)
cookieColorScheme(rows) ==
    IF rows = << >> THEN ""
    ELSE IF IsColorSchemeRow(Head(rows)) THEN Head(rows)[2]
    ELSE cookieColorScheme(Tail(rows))

\* The theme read from the cookie alone.
getOdooThemeCookieOnly(amb) ==
    IF cookieColorScheme(amb.cookie) # "" THEN cookieColorScheme(amb.cookie) ELSE "light"

getOdooTheme(amb) ==
    IF amb.colorScheme # "" THEN amb.colorScheme
    ELSE IF cookieColorScheme(amb.cookie) # "" THEN cookieColorScheme(amb.cookie)
    ELSE "light"

\* cssVar(name, fallback), raw being getPropertyValue(name)
cssVar(raw, fallback) == IF trim(raw) # << >> THEN trim(raw) ELSE fallback

getMermaidThemeConfig(amb) ==
    LET isDark == getOdooTheme(amb) = "dark"
        primary == cssVar(amb.primary, IF isDark THEN <<"#4a90a4">> ELSE <<"#714B67">>)
        textColor == cssVar(amb.text, IF isDark THEN <<"#e5e7eb">> ELSE <<"#374151">>)
        bgColor == cssVar(amb.bg, IF isDark THEN <<"#374151">> ELSE <<"#fff">>)
    IN [theme |-> "base",
        themeVariables |->
            IF isDark
                THEN [primaryColor |-> primary,
                      primaryTextColor |-> <<"#fff">>,
                      primaryBorderColor |-> <<"#5a6d7a">>,
                      lineColor |-> <<"#8b9aa5">>,
                      secondaryColor |-> <<"#3d4f5f">>,
                      tertiaryColor |-> <<"#2d3e4a">>,
                      background |-> <<"transparent">>,
                      mainBkg |-> bgColor,
                      secondBkg |-> <<"#2d3748">>,
                      border1 |-> <<"#4b5563">>,
                      border2 |-> <<"#6b7280">>,
                      arrowheadColor |-> <<"#9ca3af">>,
                      fontFamily |-> <<"inherit">>,
                      fontSize |-> <<"14px">>,
                      textColor |-> textColor,
                      nodeTextColor |-> <<"#f3f4f6">>]
                ELSE [primaryColor |-> primary,
                      primaryTextColor |-> <<"#fff">>,
                      primaryBorderColor |-> <<"#5a3d52">>,
                      lineColor |-> <<"#6b7280">>,
                      secondaryColor |-> <<"#f3e8ee">>,
                      tertiaryColor |-> <<"#faf5f8">>,
                      background |-> <<"transparent">>,
                      mainBkg |-> bgColor,
                      secondBkg |-> <<"#f9fafb">>,
                      border1 |-> <<"#e5e7eb">>,
                      border2 |-> <<"#d1d5db">>,
                      arrowheadColor |-> <<"#374151">>,
                      fontFamily |-> <<"inherit">>,
                      fontSize |-> <<"14px">>,
                      textColor |-> textColor,
                      nodeTextColor |-> <<"#1f2937">>]]

\* The module as imported: initialize has not been given any configuration.
NoThemeVariables ==
    [k \in DOMAIN getMermaidThemeConfig(
                     [colorScheme |-> "", cookie |-> << >>, primary |-> << >>,
                      text |-> << >>, bg |-> << >>]).themeVariables |-> << >>]
NoConfig == [startOnLoad |-> TRUE, securityLevel |-> "", suppressErrorRendering |-> FALSE,
             theme |-> "", themeVariables |-> NoThemeVariables]

\* The argument of initialize without the spread of the theme configuration.
initializeOptionsNoTheme(amb) ==
    [startOnLoad |-> FALSE, securityLevel |-> "strict", suppressErrorRendering |-> TRUE,
     theme |-> "", themeVariables |-> NoThemeVariables]

\* The argument of mermaidModule.initialize (lines 100-105).
initializeOptions(amb) ==
    [startOnLoad |-> FALSE, securityLevel |-> "strict", suppressErrorRendering |-> TRUE,
     theme |-> getMermaidThemeConfig(amb).theme,
     themeVariables |-> getMermaidThemeConfig(amb).themeVariables]

\* The ambient theme of a light page with nothing set.
PlainAmbient ==
    [colorScheme |-> "", cookie |-> << >>, primary |-> << >>, text |-> << >>, bg |-> << >>]

VARIABLES
    mermaidModule,          \* module-level: NULL or the handle (its load's number)
    mermaidLoadingPromise,  \* module-level: NULL or the promise (its load's number)
    loads,                  \* the dynamic imports started so far, in order
    initialized,            \* handles whose initialize() completed
    themeConfig,            \* the configuration the module's initialize() was given
    ambient,                \* the ambient theme signals
    languageId,             \* per component: embeddedState.languageId at the last highlight
    textareaValue,          \* per component: textarea.value
    embeddedValue,          \* per component: embeddedState.value
    preDisplay,             \* per component: pre.style.display
    textareaDisplay,        \* per component: textarea.style.display
    preText,                \* per component: what pre shows
    mermaidContainer,       \* per component: this._mermaidContainer (NULL or element)
    attached,               \* per component: container elements in the document
    elems,                  \* the container elements created so far
    acts,                   \* the activations of _renderMermaidDiagram, in call order
                            \* (blankAtCall: was the content blank at the highlight
                            \* call; kept while the activation awaits the loader)
    ev                      \* what the last segment did

vars == <<mermaidModule, mermaidLoadingPromise, loads, initialized, themeConfig,
          ambient, languageId,
          textareaValue, embeddedValue, preDisplay, textareaDisplay, preText,
          mermaidContainer, attached, elems, acts, ev>>

loaderVars == <<mermaidModule, mermaidLoadingPromise, loads, initialized, themeConfig>>
hostVars == <<languageId, textareaValue, embeddedValue>>
viewVars == <<preDisplay, textareaDisplay, preText, mermaidContainer, attached, elems>>

NoEv ==
    [kind |-> "none", comp |-> 0, act |-> 0, focus |-> FALSE,
     pendingBefore |-> FALSE, cachedBefore |-> FALSE, failedBefore |-> FALSE,
     fetchStarted |-> FALSE,
     hadContainer |-> FALSE, delegated |-> FALSE,
     superCalls |-> 0, superFocus |-> FALSE, superResult |-> "", returned |-> "",
     superSawContainer |-> FALSE, superSawHidden |-> FALSE,
     mermaid |-> NULL, blank |-> FALSE, blankAtCall |-> FALSE,
     rendererInvoked |-> FALSE,
     outcome |-> "", message |-> "", threw |-> FALSE]

Init ==
    /\ mermaidModule = NULL
    /\ mermaidLoadingPromise = NULL
    /\ loads = << >>
    /\ initialized = {}
    /\ themeConfig = NoConfig
    /\ ambient = PlainAmbient
    /\ languageId = [c \in Components |-> ""]
    /\ textareaValue \in [Components -> Values]
    /\ embeddedValue = textareaValue
    /\ preDisplay = [c \in Components |-> ""]
    /\ textareaDisplay = [c \in Components |-> ""]
    /\ preText = [c \in Components |-> "highlighted"]
    /\ mermaidContainer = [c \in Components |-> NULL]
    /\ attached = [c \in Components |-> {}]
    /\ elems = << >>
    /\ acts = << >>
    /\ ev = NoEv

\* ------------------------------------------------------------------ loader
\* The loads that have not settled yet.
PendingLoads == {n \in 1..Len(loads) : loads[n].status = "pending"}

\* loadMermaid without "if (mermaidLoadingPromise) return mermaidLoadingPromise".
loadMermaidNoJoin(module, promise, nLoads) ==
    IF module # NULL
        THEN [kind |-> "cached", wait |-> NULL, val |-> module, promise |-> promise]
    ELSE [kind |-> "started", wait |-> nLoads + 1, val |-> NULL, promise |-> nLoads + 1]

\* loadMermaid without "if (mermaidModule) return mermaidModule".
loadMermaidNoCache(module, promise, nLoads) ==
    IF promise # NULL
        THEN [kind |-> "joined", wait |-> promise, val |-> NULL, promise |-> promise]
    ELSE [kind |-> "started", wait |-> nLoads + 1, val |-> NULL, promise |-> nLoads + 1]

\* loadMermaid(), its synchronous part: what the call answers with and what it
\* leaves in mermaidLoadingPromise.  kind "cached": the promise returned is
\* already fulfilled with val; "joined" / "started": it follows load number wait.
loadMermaid(module, promise, nLoads) ==
    IF module # NULL
        THEN [kind |-> "cached", wait |-> NULL, val |-> module, promise |-> promise]
    ELSE IF promise # NULL
        THEN [kind |-> "joined", wait |-> promise, val |-> NULL, promise |-> promise]
    ELSE [kind |-> "started", wait |-> nLoads + 1, val |-> NULL, promise |-> nLoads + 1]

\* The async arrow with a catch that leaves mermaidLoadingPromise as it is.
loadSettledKeepPromise(outcome, n, module, promise, inited) ==
    IF outcome = "ok"
        THEN [module |-> n, promise |-> promise, inited |-> inited \cup {n}, value |-> n]
    ELSE IF outcome = "initFail"
        THEN [module |-> n, promise |-> promise, inited |-> inited, value |-> NULL]
    ELSE [module |-> module, promise |-> promise, inited |-> inited, value |-> NULL]

\* The body of the async arrow of loadMermaid once import() has settled, for load
\* number n: outcome "ok" (import and initialize succeed), "initFail" (import
\* succeeds, initialize throws), "fetchFail" (import rejects).
loadSettled(outcome, n, module, promise, inited) ==
    IF outcome = "ok"
        THEN [module |-> n, promise |-> promise, inited |-> inited \cup {n}, value |-> n]
    ELSE IF outcome = "initFail"
        THEN [module |-> n, promise |-> NULL, inited |-> inited, value |-> NULL]
    ELSE [module |-> module, promise |-> NULL, inited |-> inited, value |-> NULL]

\* ------------------------------------------------------------ host (editor)
\* const languageId = this.embeddedState?.languageId || this.props?.languageId || "plaintext"
LanguageOf(l) == IF l # "" THEN l ELSE "plaintext"

\* const value = this.textarea?.value || this.embeddedState?.value || this.props?.value || ""
ContentOf(c) ==
    IF textareaValue[c] # << >> THEN textareaValue[c]
    ELSE IF embeddedValue[c] # << >> THEN embeddedValue[c]
    ELSE << >>

\* The user types: the host keeps textarea.value and embeddedState.value equal.
SetValue(c, v) ==
    /\ textareaValue[c] # v
    /\ textareaValue' = [textareaValue EXCEPT ![c] = v]
    /\ embeddedValue' = [embeddedValue EXCEPT ![c] = v]
    /\ ev' = [NoEv EXCEPT !.kind = "setValue", !.comp = c]
    /\ UNCHANGED <<ambient, loaderVars, languageId, viewVars, acts>>

\* --------------------------------------------------------------- highlight
\* An element that was removed and is referenced no more: nothing reads it.
Detached == [html |-> NoHtml, display |-> ""]

\* The clean-up without this._mermaidContainer.remove().
cleanupNoRemove(c) ==
    IF mermaidContainer[c] # NULL
        THEN [container |-> NULL, attached |-> attached[c], elems |-> elems,
              preDisplay |-> "", textareaDisplay |-> ""]
    ELSE [container |-> mermaidContainer[c], attached |-> attached[c], elems |-> elems,
          preDisplay |-> preDisplay[c], textareaDisplay |-> textareaDisplay[c]]

\* The clean-up of highlight when switching away from mermaid: the view of
\* component c after it.
cleanup(c) ==
    IF mermaidContainer[c] # NULL
        THEN [container |-> NULL,
              attached |-> attached[c] \ {mermaidContainer[c]},
              elems |-> [elems EXCEPT ![mermaidContainer[c]] = Detached],
              preDisplay |-> "", textareaDisplay |-> ""]
    ELSE [container |-> mermaidContainer[c], attached |-> attached[c], elems |-> elems,
          preDisplay |-> preDisplay[c], textareaDisplay |-> textareaDisplay[c]]

\* What super.highlight may return to the patched highlight.
HostResults == {"undefined", "hostResult"}

\* The delegation with the focus argument dropped: super.highlight().
delegationNoFocus(l, focus, res) ==
    IF LanguageOf(l) = "mermaid"
        THEN [superCalls |-> 0, superFocus |-> FALSE, returned |-> "undefined"]
    ELSE [superCalls |-> 1, superFocus |-> FALSE, returned |-> res]

\* highlight(focus) with language l: how often super.highlight is called, with
\* which argument, and what highlight returns, res being what super.highlight
\* returns (lines 139-142 and 153).
delegation(l, focus, res) ==
    IF LanguageOf(l) = "mermaid"
        THEN [superCalls |-> 0, superFocus |-> FALSE, returned |-> "undefined"]
    ELSE [superCalls |-> 1, superFocus |-> focus, returned |-> res]

\* highlight(focus), language mermaid: calls _renderMermaidDiagram, which runs
\* up to its await of loadMermaid(); the promise it returns is dropped.
HighlightMermaid(c, l, focus) ==
    /\ LanguageOf(l) = "mermaid"
    /\ languageId' = [languageId EXCEPT ![c] = l]
    /\ Len(acts) < MaxRenders
    /\ LET r == loadMermaid(mermaidModule, mermaidLoadingPromise, Len(loads))
           d == delegation(l, focus, "undefined")
       IN
        /\ mermaidLoadingPromise' = r.promise
        /\ loads' = IF r.kind = "started"
                        THEN Append(loads, [status |-> "pending", value |-> NULL])
                        ELSE loads
        /\ acts' = Append(acts, [comp |-> c, pc |-> "awaitLoad", wait |-> r.wait,
                                 mermaid |-> r.val, blankAtCall |-> IsBlank(ContentOf(c)),
                                 trimmed |-> << >>, result |-> ""])
        /\ ev' = [NoEv EXCEPT !.kind = "highlight", !.comp = c,
                              !.act = Len(acts) + 1,
                              !.pendingBefore = (PendingLoads # {}),
                              !.cachedBefore = (mermaidModule # NULL),
                              !.failedBefore =
                                  (/\ loads # << >>
                                   /\ loads[Len(loads)].status \in {"fetchFail", "initFail"}),
                              !.fetchStarted = (r.kind = "started"),
                              !.hadContainer = (mermaidContainer[c] # NULL),
                              !.delegated = (d.superCalls > 0),
                              !.superCalls = d.superCalls,
                              !.returned = d.returned]
    /\ UNCHANGED <<ambient, themeConfig, mermaidModule, initialized, textareaValue, embeddedValue, viewVars>>

\* highlight(focus), any other language: clean up, then super.highlight(focus).
\* The host's highlight rewrites pre with the highlighted source.
HighlightOther(c, l, focus, res) ==
    /\ LanguageOf(l) # "mermaid"
    /\ languageId' = [languageId EXCEPT ![c] = l]
    /\ LET v == cleanup(c)
           d == delegation(l, focus, res)
       IN
        /\ mermaidContainer' = [mermaidContainer EXCEPT ![c] = v.container]
        /\ attached' = [attached EXCEPT ![c] = v.attached]
        /\ preDisplay' = [preDisplay EXCEPT ![c] = v.preDisplay]
        /\ textareaDisplay' = [textareaDisplay EXCEPT ![c] = v.textareaDisplay]
        /\ preText' = [preText EXCEPT ![c] = "highlighted"]
        /\ ev' = [NoEv EXCEPT !.kind = "highlight", !.comp = c, !.focus = focus,
                              !.hadContainer = (mermaidContainer[c] # NULL),
                              !.delegated = (d.superCalls > 0),
                              !.superCalls = d.superCalls,
                              !.superFocus = d.superFocus,
                              !.superResult = res,
                              !.returned = d.returned,
                              !.superSawContainer = (v.attached # {}),
                              !.superSawHidden =
                                  (v.preDisplay = "none" \/ v.textareaDisplay = "none")]
        /\ elems' = v.elems
    /\ UNCHANGED <<ambient, loaderVars, textareaValue, embeddedValue, acts>>

\* ------------------------------------------------------------------ import
\* import(MERMAID_CDN_URL) settles for load n and the async arrow runs to its end.
LoadSettle(n, outcome) ==
    /\ n \in PendingLoads
    /\ LET r == loadSettled(outcome, n, mermaidModule, mermaidLoadingPromise, initialized) IN
        /\ mermaidModule' = r.module
        /\ mermaidLoadingPromise' = r.promise
        /\ initialized' = r.inited
        /\ themeConfig' = IF outcome = "ok" THEN initializeOptions(ambient) ELSE themeConfig
        /\ loads' = [loads EXCEPT ![n] = [status |-> outcome, value |-> r.value]]
    /\ ev' = [NoEv EXCEPT !.kind = "loadSettle", !.act = n, !.outcome = outcome]
    /\ UNCHANGED <<ambient, hostVars, viewVars, acts>>

\* ---------------------------------------------------- _renderMermaidDiagram
\* Container creation without the "if (!this._mermaidContainer)" test.
ensureContainerAlways(c) ==
    [container |-> Len(elems) + 1,
     attached |-> attached[c] \cup {Len(elems) + 1},
     elems |-> Append(elems, [html |-> NoHtml, display |-> "flex"])]

\* "Create container if needed": the container of component c, the elements
\* attached after its pre and the elements created, after lines 170-184.
ensureContainer(c) ==
    IF mermaidContainer[c] = NULL
        THEN [container |-> Len(elems) + 1,
              attached |-> attached[c] \cup {Len(elems) + 1},
              elems |-> Append(elems, [html |-> NoHtml, display |-> "flex"])]
    ELSE [container |-> mermaidContainer[c], attached |-> attached[c], elems |-> elems]

\* Hiding pre but not textarea.
hideCodePreOnly(c) ==
    [pre |-> "none", textarea |-> textareaDisplay[c], container |-> "flex"]

\* "Hide code elements, show diagram" (lines 186-189): the display of pre, of
\* textarea and of the container of component c after it.
hideCode(c) == [pre |-> "none", textarea |-> "none", container |-> "flex"]

\* What await loadMermaid() evaluates to for activation a.
Awaited(a) == IF acts[a].wait = NULL THEN acts[a].mermaid ELSE loads[acts[a].wait].value

\* Continuations run in the order their promises were awaited: those following a
\* load among themselves, those of an already fulfilled promise among themselves.
MayResume(a) ==
    /\ acts[a].pc = "awaitLoad"
    /\ acts[a].wait # NULL => acts[a].wait \notin PendingLoads
    /\ \A b \in 1..(a - 1) :
          acts[b].pc = "awaitLoad" => (acts[b].wait = NULL) # (acts[a].wait = NULL)

\* The failure message written over the source (textarea.value) instead of pre.
ResumeLoadFailedIntoTextarea(a) ==
    /\ MayResume(a)
    /\ Awaited(a) = NULL
    /\ LET c == acts[a].comp IN
        /\ textareaValue' = [textareaValue EXCEPT ![c] = <<"F">>]
        /\ acts' = [acts EXCEPT ![a].pc = "returned", ![a].result = "loadFailed",
                                ![a].blankAtCall = FALSE]
        /\ ev' = [NoEv EXCEPT !.kind = "resume", !.comp = c, !.act = a,
                              !.hadContainer = (mermaidContainer[c] # NULL),
                              !.blank = IsBlank(ContentOf(c)),
                              !.blankAtCall = acts[a].blankAtCall,
                              !.outcome = "loadFailed"]
    /\ UNCHANGED <<ambient, loaderVars, languageId, embeddedValue, viewVars>>

\* The handle was null: the message goes to pre and the function returns.
ResumeLoadFailed(a) ==
    /\ MayResume(a)
    /\ Awaited(a) = NULL
    /\ LET c == acts[a].comp IN
        /\ preText' = [preText EXCEPT ![c] = "Failed to load Mermaid library"]
        /\ acts' = [acts EXCEPT ![a].pc = "returned", ![a].result = "loadFailed",
                                ![a].blankAtCall = FALSE]
        /\ ev' = [NoEv EXCEPT !.kind = "resume", !.comp = c, !.act = a,
                              !.hadContainer = (mermaidContainer[c] # NULL),
                              !.blank = IsBlank(ContentOf(c)),
                              !.blankAtCall = acts[a].blankAtCall,
                              !.outcome = "loadFailed"]
    /\ UNCHANGED <<ambient, loaderVars, hostVars, preDisplay, textareaDisplay,
                   mermaidContainer, attached, elems>>

\* The handle is there: read the content, ensure the container, hide pre and
\* textarea, show the container; blank content gets the placeholder, any other
\* content is handed to mermaid.render, whose promise is awaited.
ResumeLoaded(a) ==
    /\ MayResume(a)
    /\ Awaited(a) # NULL
    /\ LET c == acts[a].comp
           trimmedValue == trim(ContentOf(c))
           e == ensureContainer(c)
           h == hideCode(c)
       IN
        /\ mermaidContainer' = [mermaidContainer EXCEPT ![c] = e.container]
        /\ attached' = [attached EXCEPT ![c] = e.attached]
        /\ preDisplay' = [preDisplay EXCEPT ![c] = h.pre]
        /\ textareaDisplay' = [textareaDisplay EXCEPT ![c] = h.textarea]
        /\ elems' = [e.elems EXCEPT ![e.container] =
                        [html |-> IF trimmedValue = << >> THEN PlaceholderHtml ELSE @.html,
                         display |-> h.container]]
        /\ acts' = [acts EXCEPT ![a] =
                        [@ EXCEPT !.mermaid = Awaited(a), !.trimmed = trimmedValue,
                                  !.blankAtCall = FALSE,
                                  !.pc = IF trimmedValue = << >> THEN "returned"
                                         ELSE "awaitRender",
                                  !.result = IF trimmedValue = << >> THEN "empty" ELSE ""]]
        /\ ev' = [NoEv EXCEPT !.kind = "resume", !.comp = c, !.act = a,
                              !.hadContainer = (mermaidContainer[c] # NULL),
                              !.mermaid = Awaited(a),
                              !.blank = IsBlank(ContentOf(c)),
                              !.blankAtCall = acts[a].blankAtCall,
                              !.rendererInvoked = (trimmedValue # << >>),
                              !.outcome = IF trimmedValue = << >> THEN "empty"
                                          ELSE "rendering"]
    /\ UNCHANGED <<ambient, loaderVars, hostVars, preText>>

\* The continuation without "this._mermaidContainer.innerHTML = svg".
renderSettledNoWrite(a, ok, message) ==
    LET c == acts[a].comp IN
    IF mermaidContainer[c] = NULL
        THEN [threw |-> TRUE, html |-> NoHtml]
    ELSE IF ok
        THEN [threw |-> FALSE, html |-> elems[mermaidContainer[c]].html]
    ELSE [threw |-> FALSE, html |-> ErrorHtml(message)]

\* What the continuation of await mermaid.render(id, trimmedValue) leaves of
\* activation a: ok is whether render fulfilled, message the e.message of its
\* rejection.  Writing innerHTML of a null _mermaidContainer throws a TypeError:
\* inside try it lands in catch, whose own write throws again, out of the
\* function.
renderSettled(a, ok, message) ==
    LET c == acts[a].comp IN
    IF mermaidContainer[c] = NULL
        THEN [threw |-> TRUE, html |-> NoHtml]
    ELSE IF ok
        THEN [threw |-> FALSE, html |-> SvgHtml(acts[a].trimmed)]
    ELSE [threw |-> FALSE, html |-> ErrorHtml(message)]

RenderSettle(a, ok, message) ==
    /\ a \in 1..Len(acts)
    /\ acts[a].pc = "awaitRender"
    /\ ok => message = ""
    /\ LET c == acts[a].comp
           r == renderSettled(a, ok, message)
       IN
        /\ elems' = IF r.threw THEN elems
                    ELSE [elems EXCEPT ![mermaidContainer[c]].html = r.html]
        /\ acts' = [acts EXCEPT ![a].pc = IF r.threw THEN "rejected" ELSE "returned",
                                ![a].result = IF r.threw THEN "threw"
                                              ELSE IF ok THEN "rendered" ELSE "renderError"]
        /\ ev' = [NoEv EXCEPT !.kind = "renderSettle", !.comp = c, !.act = a,
                              !.hadContainer = (mermaidContainer[c] # NULL),
                              !.outcome = IF ok THEN "ok" ELSE "error",
                              !.message = message,
                              !.threw = r.threw]
    /\ UNCHANGED <<ambient, loaderVars, hostVars, preDisplay, textareaDisplay, preText,
                   mermaidContainer, attached>>

\* ----------------------------------------------------------- specification
Next ==
    \/ \E c \in Components, v \in Values : SetValue(c, v)
    \/ \E c \in Components, l \in LanguageIds, focus \in BOOLEAN :
          HighlightMermaid(c, l, focus)
    \/ \E c \in Components, l \in LanguageIds, focus \in BOOLEAN, res \in HostResults :
          HighlightOther(c, l, focus, res)
    \/ \E n \in 1..Len(loads), outcome \in {"ok", "initFail", "fetchFail"} :
          LoadSettle(n, outcome)
    \/ \E a \in 1..Len(acts) : ResumeLoadFailed(a)
    \/ \E a \in 1..Len(acts) : ResumeLoaded(a)
    \/ \E a \in 1..Len(acts), ok \in BOOLEAN, message \in Messages :
          RenderSettle(a, ok, message)

Spec == Init /\ [][Next]_vars

\* ================================================================== claims
Activations == 1..Len(acts)
FailedStatus == {"fetchFail", "initFail"}
HighlightedMermaid == ev.kind = "highlight" /\ ev.act # 0

\* Diagram mode of component c: the container exists, is in the document and
\* shown, pre and textarea are hidden.
DiagramMode(c) ==
    /\ mermaidContainer[c] # NULL
    /\ mermaidContainer[c] \in attached[c]
    /\ elems[mermaidContainer[c]].display = "flex"
    /\ preDisplay[c] = "none"
    /\ textareaDisplay[c] = "none"

\* innerHTML of the container of component c (NoHtml when there is none).
ContainerHtml(c) ==
    IF mermaidContainer[c] = NULL THEN NoHtml ELSE elems[mermaidContainer[c]].html

\* C1: a loadMermaid call made while a load is in flight starts no fetch and
\* follows that load; a call made with nothing cached and nothing in flight
\* starts exactly one; all callers following one load receive that load's one
\* result: its handle when it succeeded, null when it failed.
C1_OneFetchSharedResult ==
    /\ HighlightedMermaid /\ ev.pendingBefore =>
          /\ ~ev.fetchStarted
          /\ acts[ev.act].wait \in PendingLoads
          /\ Cardinality(PendingLoads) = 1
    /\ HighlightedMermaid /\ ev.fetchStarted =>
          /\ ~ev.pendingBefore
          /\ acts[ev.act].wait = Len(loads)
          /\ PendingLoads = {Len(loads)}
    /\ \A a \in Activations :
          acts[a].wait # NULL /\ acts[a].pc # "awaitLoad" =>
              /\ loads[acts[a].wait].status # "pending"
              /\ acts[a].mermaid = loads[acts[a].wait].value
              /\ acts[a].mermaid =
                    IF loads[acts[a].wait].status = "ok" THEN acts[a].wait ELSE NULL

\* Two callers of the one load have both received its handle.
C1_Witness ==
    /\ Len(loads) = 1
    /\ loads[1].status = "ok"
    /\ \E a, b \in Activations :
          /\ a # b
          /\ acts[a].wait = 1 /\ acts[b].wait = 1
          /\ acts[a].pc # "awaitLoad" /\ acts[b].pc # "awaitLoad"
          /\ acts[a].mermaid = 1 /\ acts[b].mermaid = 1

\* C2: once a load has succeeded, the handle stays cached, nothing is in flight
\* and no fetch is started any more; every later call is answered from the
\* cache, with that same handle.
C2_CachedAfterSuccess ==
    \A n \in 1..Len(loads) :
        loads[n].status = "ok" =>
            /\ mermaidModule = n
            /\ n = Len(loads)
            /\ PendingLoads = {}
            /\ HighlightedMermaid =>
                  /\ ~ev.fetchStarted
                  /\ acts[ev.act].wait = NULL
                  /\ acts[ev.act].mermaid = n
            /\ \A a \in Activations : acts[a].wait = NULL => acts[a].mermaid = n

\* A call made after the load succeeded was answered from the cache.
C2_Witness ==
    /\ HighlightedMermaid
    /\ ev.cachedBefore
    /\ \E n \in 1..Len(loads) : loads[n].status = "ok" /\ acts[ev.act].mermaid = n

\* C3: a failed load (fetch or initialize) answers null, clears the in-flight
\* marker, and the next loadMermaid call starts a new fetch.
C3_FailureClearsAndRetries ==
    /\ \A n \in 1..Len(loads) : loads[n].status \in FailedStatus => loads[n].value = NULL
    /\ ev.kind = "loadSettle" /\ ev.outcome \in FailedStatus => mermaidLoadingPromise = NULL
    /\ HighlightedMermaid /\ ev.failedBefore => ev.fetchStarted

\* C4 as stated: a mermaid highlight whose content is blank ends with the
\* placeholder in the container and without a render call, whatever the loader
\* answered.
C4_BlankShowsPlaceholder ==
    ev.kind = "resume" /\ ev.blankAtCall =>
        /\ ContainerHtml(ev.comp) = PlaceholderHtml
        /\ ~ev.rendererInvoked

\* C4 amended: when the loader yields a handle and the content is blank when
\* _renderMermaidDiagram reads it, the shown container holds the placeholder
\* and the activation returns; blank content never reaches mermaid.render,
\* whatever the loader answered.
C4_BlankAfterLoadShowsPlaceholder ==
    /\ ev.kind = "resume" /\ ev.blank => ~ev.rendererInvoked
    /\ ev.kind = "resume" /\ ev.blank /\ ev.mermaid # NULL =>
          /\ DiagramMode(ev.comp)
          /\ ContainerHtml(ev.comp) = PlaceholderHtml
          /\ acts[ev.act].pc = "returned"

\* Whitespace-only content was read with the module loaded.
C4_Witness ==
    /\ ev.kind = "resume"
    /\ ev.mermaid # NULL
    /\ textareaValue[ev.comp] = <<" ">>
    /\ ContainerHtml(ev.comp) = PlaceholderHtml

\* C5 as stated: when the renderer has succeeded, the container holds the
\* markup of the trimmed content, is shown, and pre and textarea are hidden.
C5_RenderedMarkupShown ==
    ev.kind = "renderSettle" /\ ev.outcome = "ok" =>
        /\ DiagramMode(ev.comp)
        /\ ContainerHtml(ev.comp) = SvgHtml(acts[ev.act].trimmed)

\* C5 amended: the same, provided the component still has a container when the
\* renderer resolves; the content rendered carries no surrounding whitespace.
C5_RenderedMarkupShownIfContainer ==
    ev.kind = "renderSettle" /\ ev.outcome = "ok" /\ ev.hadContainer =>
        /\ DiagramMode(ev.comp)
        /\ ContainerHtml(ev.comp) = SvgHtml(acts[ev.act].trimmed)
        /\ acts[ev.act].trimmed # << >>
        /\ Head(acts[ev.act].trimmed) \notin Whitespace
        /\ acts[ev.act].trimmed[Len(acts[ev.act].trimmed)] \notin Whitespace
        /\ acts[ev.act].pc = "returned"

\* A render resolved into the container.
C5_Witness ==
    /\ ev.kind = "renderSettle"
    /\ ev.outcome = "ok"
    /\ ev.hadContainer
    /\ ContainerHtml(ev.comp).kind = "svg"

\* C6: a highlight of another language while a container exists removes it from
\* the document, clears the reference and shows pre and textarea again, and the
\* host's highlight is called on that cleaned-up view.
C6_SwitchAwayCleansUp ==
    ev.kind = "highlight" /\ ev.delegated /\ ev.hadContainer =>
        /\ mermaidContainer[ev.comp] = NULL
        /\ attached[ev.comp] = {}
        /\ preDisplay[ev.comp] = ""
        /\ textareaDisplay[ev.comp] = ""
        /\ ~ev.superSawContainer
        /\ ~ev.superSawHidden

\* A highlight of another language found a container.
C6_Witness ==
    /\ ev.kind = "highlight"
    /\ ev.delegated
    /\ ev.hadContainer
    /\ Len(elems) >= 1

\* C7 as stated: when the renderer rejects, the container holds the error
\* markup with the failure's message, or with the fallback text when it has
\* none, and pre and textarea stay hidden.
C7_RenderErrorShown ==
    ev.kind = "renderSettle" /\ ev.outcome = "error" =>
        /\ DiagramMode(ev.comp)
        /\ ContainerHtml(ev.comp).kind = "error"
        /\ ContainerHtml(ev.comp).msg =
              IF ev.message # "" THEN ev.message ELSE "Invalid syntax"

\* C7 amended: the same, provided the component still has a container when the
\* renderer rejects.
C7_RenderErrorShownIfContainer ==
    ev.kind = "renderSettle" /\ ev.outcome = "error" /\ ev.hadContainer =>
        /\ DiagramMode(ev.comp)
        /\ ContainerHtml(ev.comp).kind = "error"
        /\ ContainerHtml(ev.comp).msg =
              IF ev.message # "" THEN ev.message ELSE "Invalid syntax"
        /\ acts[ev.act].pc = "returned"

\* A rejection without message was written into the container.
C7_Witness ==
    /\ ev.kind = "renderSettle"
    /\ ev.outcome = "error"
    /\ ev.message = ""
    /\ ev.hadContainer
    /\ ContainerHtml(ev.comp).kind = "error"

\* C8 as stated: the container exists and pre and textarea are hidden from the
\* highlight call on, before the loader answers, and the component is in
\* diagram mode once the highlight is processed, whatever the loader answered.
C8_DiagramModeWhateverLoader ==
    HighlightedMermaid \/ ev.kind = "resume" => DiagramMode(ev.comp)

\* C8 amended: the highlight call itself leaves the view alone; once the loader
\* has yielded a handle the component is in diagram mode; when the loader
\* failed the message is written to pre and no container is created.
C8_DiagramModeAfterLoad ==
    /\ HighlightedMermaid => (mermaidContainer[ev.comp] # NULL) = ev.hadContainer
    /\ ev.kind = "resume" /\ ev.mermaid # NULL => DiagramMode(ev.comp)
    /\ ev.kind = "resume" /\ ev.mermaid = NULL =>
          /\ preText[ev.comp] = "Failed to load Mermaid library"
          /\ (mermaidContainer[ev.comp] # NULL) = ev.hadContainer

\* The first continuation with a handle has created the container.
C8_Witness ==
    /\ ev.kind = "resume"
    /\ ev.mermaid # NULL
    /\ ~ev.hadContainer
    /\ DiagramMode(ev.comp)

\* C9: the promise of no activation of _renderMermaidDiagram rejects.
C9_NeverRejects ==
    \A a \in Activations : acts[a].pc # "rejected"

\* C10: a component has at most one container element in the document, and it
\* is the one _mermaidContainer refers to.
C10_AtMostOneContainer ==
    \A c \in Components :
        /\ Cardinality(attached[c]) <= 1
        /\ attached[c] \subseteq {mermaidContainer[c]} \ {NULL}

\* A second container was created after a switch away, while the first render
\* is still in flight.
C10_Witness ==
    /\ Len(elems) = 2
    /\ attached[1] = {2}
    /\ mermaidContainer[1] = 2
    /\ \E a \in Activations : acts[a].pc = "awaitRender"

\* No loader call and no render of any activation is in flight.
Quiescent == \A a \in Activations : acts[a].pc \in {"returned", "rejected"}

\* C15: in a quiescent state whose last highlight was for another language than
\* mermaid, the component has no container and pre and textarea are visible.
C15_NoContainerOutsideDiagramMode ==
    \A c \in Components :
        Quiescent /\ LanguageOf(languageId[c]) # "mermaid" =>
            /\ mermaidContainer[c] = NULL
            /\ attached[c] = {}
            /\ preDisplay[c] = ""
            /\ textareaDisplay[c] = ""

\* C16 as stated: a mermaid highlight made with the module loaded has passed its
\* container step when the call returns, so no highlight call ever finds an
\* earlier such activation still waiting.
C16_CachedHighlightRunsToContainer ==
    /\ HighlightedMermaid /\ ev.cachedBefore /\ mermaidModule \in initialized =>
          acts[ev.act].pc # "awaitLoad"
    /\ ev.kind = "highlight" /\ mermaidModule \in initialized =>
          \A b \in Activations \ {ev.act} :
              ~(acts[b].pc = "awaitLoad" /\ acts[b].wait = NULL)

\* C16 amended: a mermaid highlight made with the module loaded starts no fetch
\* and is answered with the cached handle, but it returns with the activation
\* suspended at its await of loadMermaid() and the view as it was; the container
\* step runs in the later continuation.
C16_CachedHighlightStillSuspends ==
    /\ HighlightedMermaid /\ ev.cachedBefore =>
          /\ ~ev.fetchStarted
          /\ acts[ev.act].pc = "awaitLoad"
          /\ acts[ev.act].wait = NULL
          /\ acts[ev.act].mermaid = mermaidModule
          /\ (mermaidContainer[ev.comp] # NULL) = ev.hadContainer
    /\ ev.kind = "resume" /\ acts[ev.act].wait = NULL =>
          /\ ev.mermaid = mermaidModule
          /\ DiagramMode(ev.comp)

\* A highlight made after a successful load has returned with its activation
\* waiting and no container yet.
C16_Witness ==
    /\ HighlightedMermaid
    /\ ev.cachedBefore
    /\ mermaidModule \in initialized
    /\ acts[ev.act].pc = "awaitLoad"
    /\ mermaidContainer[ev.comp] = NULL

\* C17: no segment of highlight, of the loader or of _renderMermaidDiagram
\* changes textarea.value or embeddedState.value.
C17_SourceContentUntouched ==
    [][ev'.kind \in {"highlight", "loadSettle", "resume", "renderSettle"} =>
          /\ textareaValue' = textareaValue
          /\ embeddedValue' = embeddedValue]_vars

\* A load-failure message was written while the textarea held content, after
\* another activation had ended with the placeholder, a render or a render error.
C17_Witness ==
    /\ ev.kind = "resume"
    /\ ev.outcome = "loadFailed"
    /\ textareaValue[ev.comp] # << >>
    /\ \E a \in Activations : acts[a].result \in {"empty", "rendered", "renderError"}

\* C18: every handle a caller of loadMermaid receives has had its initialize
\* call complete, and mermaid.render is only called on such a handle.
C18_OnlyInitializedHandles ==
    /\ \A a \in Activations : acts[a].mermaid # NULL => acts[a].mermaid \in initialized
    /\ ev.rendererInvoked => ev.mermaid \in initialized

\* C20: at most one import is in flight; none is while a handle is cached; the
\* in-flight marker is set with no cached handle only while its import is
\* pending.
C20_LoaderStateConsistent ==
    /\ Cardinality(PendingLoads) <= 1
    /\ mermaidModule # NULL => PendingLoads = {}
    /\ mermaidLoadingPromise # NULL /\ mermaidModule = NULL =>
          PendingLoads = {mermaidLoadingPromise}
    /\ PendingLoads # {} => PendingLoads = {mermaidLoadingPromise}

\* A retry is in flight after a failed fetch.
C20_Witness ==
    /\ Len(loads) = 2
    /\ loads[1].status = "fetchFail"
    /\ PendingLoads = {2}
    /\ mermaidLoadingPromise = 2

\* C12: a highlight for another language than mermaid calls the host's highlight
\* exactly once, with the focus flag it was given, and returns what the host
\* returned; a highlight for mermaid never calls it.
C12_DelegatesOnlyOtherLanguages ==
    ev.kind = "highlight" =>
        IF LanguageOf(languageId[ev.comp]) # "mermaid"
            THEN /\ ev.superCalls = 1
                 /\ ev.superFocus = ev.focus
                 /\ ev.returned = ev.superResult
                 /\ ev.act = 0
            ELSE /\ ev.superCalls = 0
                 /\ ev.returned = "undefined"
                 /\ ev.act # 0

\* A highlight with focus set was passed on and the host's answer returned.
C12_Witness ==
    /\ ev.kind = "highlight"
    /\ LanguageOf(languageId[ev.comp]) = "plaintext"
    /\ ev.focus
    /\ ev.superCalls = 1
    /\ ev.superFocus
    /\ ev.returned = "hostResult"

\* ------------------------------------------------- overlapping renders (C19)
\* The same program with two different contents for the user to type, one a
\* diagram the renderer accepts and one it rejects: here mermaid.render settles
\* as the content it was given decides.
RaceValues == { <<" ", "A", " ">>, <<"B">> }
ValidDiagram(text) == text = <<"A">>

InitRace ==
    /\ mermaidModule = NULL
    /\ mermaidLoadingPromise = NULL
    /\ loads = << >>
    /\ initialized = {}
    /\ themeConfig = NoConfig
    /\ ambient = PlainAmbient
    /\ languageId = [c \in Components |-> ""]
    /\ textareaValue \in [Components -> RaceValues]
    /\ embeddedValue = textareaValue
    /\ preDisplay = [c \in Components |-> ""]
    /\ textareaDisplay = [c \in Components |-> ""]
    /\ preText = [c \in Components |-> "highlighted"]
    /\ mermaidContainer = [c \in Components |-> NULL]
    /\ attached = [c \in Components |-> {}]
    /\ elems = << >>
    /\ acts = << >>
    /\ ev = NoEv

NextRace ==
    \/ \E c \in Components, v \in RaceValues : SetValue(c, v)
    \/ \E c \in Components, l \in LanguageIds, focus \in BOOLEAN :
          HighlightMermaid(c, l, focus)
    \/ \E c \in Components, l \in LanguageIds, focus \in BOOLEAN, res \in HostResults :
          HighlightOther(c, l, focus, res)
    \/ \E n \in 1..Len(loads), outcome \in {"ok", "initFail", "fetchFail"} :
          LoadSettle(n, outcome)
    \/ \E a \in 1..Len(acts) : ResumeLoadFailed(a)
    \/ \E a \in 1..Len(acts) : ResumeLoaded(a)
    \/ \E a \in 1..Len(acts), message \in Messages :
          RenderSettle(a, ValidDiagram(acts[a].trimmed), message)

SpecRace == InitRace /\ [][NextRace]_vars

\* C19: once every activation has settled with the language still mermaid, the
\* container shows the result of the render requested last: its markup when
\* it succeeded, an error when it failed.
C19_LastRequestedRenderShown ==
    \A c \in Components :
        /\ Quiescent
        /\ LanguageOf(languageId[c]) = "mermaid"
        /\ acts # << >>
        /\ acts[Len(acts)].comp = c
        /\ acts[Len(acts)].result \in {"rendered", "renderError"}
        => IF acts[Len(acts)].result = "rendered"
               THEN ContainerHtml(c) = SvgHtml(acts[Len(acts)].trimmed)
               ELSE ContainerHtml(c).kind = "error"

\* ------------------------------------------------ ambient theme changes
\* The host page sets or removes its dark colour scheme (the root data
\* attribute); the component only ever reads it.  The content of the block
\* stays as it was at the start.
SetColorScheme(scheme) ==
    /\ ambient.colorScheme # scheme
    /\ ambient' = [ambient EXCEPT !.colorScheme = scheme]
    /\ ev' = [NoEv EXCEPT !.kind = "ambient"]
    /\ UNCHANGED <<loaderVars, hostVars, viewVars, acts>>

NextAmbient ==
    \/ \E scheme \in {"dark", ""} : SetColorScheme(scheme)
    \/ \E c \in Components, l \in LanguageIds, focus \in BOOLEAN :
          HighlightMermaid(c, l, focus)
    \/ \E c \in Components, l \in LanguageIds, focus \in BOOLEAN, res \in HostResults :
          HighlightOther(c, l, focus, res)
    \/ \E n \in 1..Len(loads), outcome \in {"ok", "initFail", "fetchFail"} :
          LoadSettle(n, outcome)
    \/ \E a \in 1..Len(acts) : ResumeLoadFailed(a)
    \/ \E a \in 1..Len(acts) : ResumeLoaded(a)
    \/ \E a \in 1..Len(acts), ok \in BOOLEAN, message \in Messages :
          RenderSettle(a, ok, message)

SpecAmbient == Init /\ [][NextAmbient]_vars

\* The theme configuration the module renders with.
ThemeInEffect == [theme |-> themeConfig.theme, themeVariables |-> themeConfig.themeVariables]

\* C11 (as stated): whenever an initialized module is asked to render, the
\* theme configuration in effect is the one derived from the ambient theme at
\* that moment.
C11_ThemeRecomputedOnRender ==
    ev.rendererInvoked /\ ev.mermaid \in initialized
        => ThemeInEffect = getMermaidThemeConfig(ambient)

\* C11 (amended): the theme configuration is derived once, from the ambient
\* theme at the moment the loaded module is initialized; no later step, a
\* render or a change of the ambient theme included, changes the configuration
\* in effect.
C11_ThemeFixedAtLoad ==
    [][IF ev'.kind = "loadSettle" /\ ev'.outcome = "ok"
           THEN ThemeInEffect' = getMermaidThemeConfig(ambient')
           ELSE themeConfig' = themeConfig]_vars

\* C11 witness: an initialized module is asked to render after the ambient
\* theme changed, with the configuration of load time still in effect.
C11_Witness ==
    /\ ev.rendererInvoked
    /\ ev.mermaid \in initialized
    /\ ThemeInEffect.theme = "base"
    /\ getOdooTheme(ambient) = "dark"
    /\ ThemeInEffect.themeVariables.nodeTextColor = <<"#1f2937">>

\* ------------------------------------------------- theme derivation alone
ColorSchemes == {"", "dark", "light"}
CookieJars ==
    { << >>,
      << <<"color_scheme", "dark">> >>,
      << <<"color_scheme", "">> >>,
      << <<"color_scheme">> >>,
      << <<"sid", "dark">>, <<"color_scheme", "dark">> >>,
      << <<"color_scheme", "light">>, <<"color_scheme", "dark">> >> }
CssValues == { << >>, <<" ">>, <<" ", "#123456", " ">> }
AmbientInputs ==
    [colorScheme : ColorSchemes, cookie : CookieJars,
     primary : CssValues, text : CssValues, bg : CssValues]

InitTheme ==
    /\ mermaidModule = NULL
    /\ mermaidLoadingPromise = NULL
    /\ loads = << >>
    /\ initialized = {}
    /\ themeConfig = NoConfig
    /\ ambient \in AmbientInputs
    /\ languageId = [c \in Components |-> ""]
    /\ textareaValue = [c \in Components |-> << >>]
    /\ embeddedValue = [c \in Components |-> << >>]
    /\ preDisplay = [c \in Components |-> ""]
    /\ textareaDisplay = [c \in Components |-> ""]
    /\ preText = [c \in Components |-> << >>]
    /\ mermaidContainer = [c \in Components |-> NULL]
    /\ attached = [c \in Components |-> {}]
    /\ elems = << >>
    /\ acts = << >>
    /\ ev = NoEv

NextTheme ==
    \/ \E c \in Components, focus \in BOOLEAN : HighlightMermaid(c, "mermaid", focus)
    \/ \E n \in 1..Len(loads), outcome \in {"ok", "initFail", "fetchFail"} :
          LoadSettle(n, outcome)

SpecTheme == InitTheme /\ [][NextTheme]_vars

\* The rows of the cookie that name the colour scheme.
SchemeRows == {i \in 1..Len(ambient.cookie) :
                  Len(ambient.cookie[i]) >= 2 /\ ambient.cookie[i][1] = "color_scheme"}

\* The first available of the root data attribute, the color_scheme cookie
\* and 'light'.
FirstAvailableScheme ==
    LET first == CHOOSE i \in SchemeRows : \A j \in SchemeRows : i <= j
    IN  IF ambient.colorScheme # "" THEN ambient.colorScheme
        ELSE IF SchemeRows # {} /\ ambient.cookie[first][2] # ""
                 THEN ambient.cookie[first][2]
        ELSE "light"

\* C13: the configuration the module is initialized with is determined by
\* the ambient signals: its mode is dark exactly when the first available of
\* the root data attribute, the color_scheme cookie and 'light' is 'dark';
\* primaryColor, textColor and mainBkg each equal the value of their CSS
\* variable (its surrounding white space stripped) when the variable has one,
\* whatever the mode, and the hard-coded default of the mode otherwise.
C13_ThemeConfigFromAmbient ==
    LET dark == FirstAvailableScheme = "dark"
        css == [primaryColor |-> ambient.primary, textColor |-> ambient.text,
                mainBkg |-> ambient.bg]
        darkDefault == [primaryColor |-> <<"#4a90a4">>, textColor |-> <<"#e5e7eb">>,
                        mainBkg |-> <<"#374151">>]
        lightDefault == [primaryColor |-> <<"#714B67">>, textColor |-> <<"#374151">>,
                         mainBkg |-> <<"#fff">>]
        tv == themeConfig.themeVariables
    IN  ev.kind = "loadSettle" /\ ev.outcome = "ok"
        => /\ themeConfig.theme = "base"
           /\ tv.nodeTextColor = (IF dark THEN <<"#f3f4f6">> ELSE <<"#1f2937">>)
           /\ tv.primaryBorderColor = (IF dark THEN <<"#5a6d7a">> ELSE <<"#5a3d52">>)
           /\ \A k \in {"primaryColor", "textColor", "mainBkg"} :
                 tv[k] = IF \E i \in 1..Len(css[k]) : css[k][i] \notin Whitespace
                             THEN trim(css[k])
                             ELSE IF dark THEN darkDefault[k] ELSE lightDefault[k]

\* C13 witness: a module was initialized on a page whose dark mode comes from
\* the second cookie row only, with --o-brand-primary set and
\* --o-main-text-color white space only.
C13_Witness ==
    /\ ev.kind = "loadSettle"
    /\ ev.outcome = "ok"
    /\ ambient.colorScheme = ""
    /\ ambient.cookie = << <<"sid", "dark">>, <<"color_scheme", "dark">> >>
    /\ ambient.primary = <<" ", "#123456", " ">>
    /\ ambient.text = <<" ">>
    /\ ambient.bg = << >>
    /\ themeConfig.themeVariables.primaryColor = <<"#123456">>
    /\ themeConfig.themeVariables.textColor = <<"#e5e7eb">>

====
